---- MODULE Spec2Model ----
(***************************************************************************)
(* The registration endpoint of src/App.js: POST /api/register hashes the  *)
(* submitted password with bcrypt (work factor 10), inserts one row into   *)
(* the users table and maps the insert's {data, error} to 201 or 400.      *)
(* Every request runs the async handler once; the handler suspends at the  *)
(* await on bcrypt.hash and at the await on the insert, so the steps of    *)
(* different requests interleave at those two points.                      *)
(*                                                                         *)
(* An optional JavaScript value is a sequence: <<>> is undefined/null and  *)
(* <<v>> is the value v.                                                   *)
(***************************************************************************)
EXTENDS Integers, Sequences, FiniteSets, TLC

VARIABLES
    users,           \* the rows of table users
    pc,              \* where each request's handler is
    body,            \* req.body of each request
    hashedPassword,  \* the handler's const hashedPassword, once the hash resolved
    result,          \* the {data, error} the insert produced, once the store ran it
    response,        \* the HTTP response sent for the request, if any
    usedSalts,       \* salts bcrypt's random generator has handed out
    insertCalls      \* how many times the handler invoked the insert

vars == <<users, pc, body, hashedPassword, result, response, usedSalts, insertCalls>>

\* Number of register requests a run delivers.
MaxReqs == 2

\* bcrypt.hash(password, 10)
WorkFactor == 10

Reqs == 1..MaxReqs

None == <<>>
Some(v) == <<v>>

\* Values a client may put in each field of the JSON body (None: field absent).
Usernames == {None, Some(""), Some("alice")}
Emails == {None, Some(""), Some("alice@example.com")}
Passwords == {None, Some(""), Some("s3cret")}

\* The bodies a client sends. A body missing several fields fares as the one
\* missing the first of them the handler trips over, so at most one is absent.
Bodies ==
    {b \in [username : Usernames, email : Emails, password : Passwords] :
        Cardinality({f \in {"username", "email", "password"} : b[f] = None}) <= 1}

\* const { username, email, password } = req.body, before a request arrived
NoBody == [username |-> None, email |-> None, password |-> None]

\* The salts bcrypt's generator can draw; one per hash call is enough.
Salts == {ToString(n) : n \in 1..MaxReqs}

\* gen_random_uuid() values
Ids == 1..MaxReqs

MsgDupUsername == "duplicate key value violates unique constraint \"users_username_key\""
MsgDupEmail == "duplicate key value violates unique constraint \"users_email_key\""
MsgNullUsername == "null value in column \"username\" violates not-null constraint"
MsgNullEmail == "null value in column \"email\" violates not-null constraint"
MsgNullPassword == "null value in column \"password\" violates not-null constraint"
MsgUnavailable == "FetchError: request to the store failed"

----------------------------------------------------------------------------
(* bcrypt *)

\* A hash ignoring its salt: every hash of one password is the same string.
HashUnsalted(p, salt) == "$2a$" \o ToString(WorkFactor) \o "$0$H(0," \o p \o ")"

\* bcrypt.hash(p, 10) with the salt the generator drew: the modular-crypt string
\* $2a$<cost>$<salt><digest>, the digest a one-way function of salt and password.
Hash(p, salt) ==
    "$2a$" \o ToString(WorkFactor) \o "$" \o salt \o "$H(" \o salt \o "," \o p \o ")"

\* The strings a client submits as password.
PasswordTexts == {p[1] : p \in Passwords \ {None}}

\* Every hash bcrypt can produce for a password, one per salt.
SaltedHashes == [p \in PasswordTexts |-> {Hash(p, s) : s \in Salts}]

\* bcrypt.compare(p, h): h is the hash of p under the salt h carries.
Verify(p, h) == h \in SaltedHashes[p]

\* bcrypt's genSalt: 16 random bytes, modelled as never repeating. Salts are
\* interchangeable, so the model draws them in a fixed order.
GenSalt(used) == ToString(Cardinality(used) + 1)

\* bcrypt.hash rejects ("Illegal arguments: undefined, number") unless its first
\* argument is a string.
HashRejects(arg) == arg = None

----------------------------------------------------------------------------
(* The handler's pure parts *)

\* The first argument of bcrypt.hash: the destructured password, untouched.
HashArg(b) == b.password

\* A handler that stores the submitted password instead of its hash.
InsertPayloadRaw(b, h) ==
    [username |-> b.username, email |-> b.email, password |-> b.password]

\* [{ username, email, password: hashedPassword }]
InsertPayload(b, h) ==
    [username |-> b.username, email |-> b.email, password |-> Some(h)]

\* A handler answering 200 instead of 201 on success.
ResponseForOk200(res) ==
    IF res.error # None
        THEN [status |-> 400, body |-> [error |-> res.error[1]]]
        ELSE [status |-> 200, body |-> res.data]

\* A handler that ignores the store's error.
ResponseForIgnoringError(res) == [status |-> 201, body |-> res.data]

\* if (error) return res.status(400).json({ error: error.message });
\* res.status(201).json(data);
ResponseFor(res) ==
    IF res.error # None
        THEN [status |-> 400, body |-> [error |-> res.error[1]]]
        ELSE [status |-> 201, body |-> res.data]

----------------------------------------------------------------------------
(* The users table *)

\* The table without the UNIQUE constraint on email.
ConstraintErrorNoEmail(rows, rec) ==
    IF rec.username = None THEN Some(MsgNullUsername)
    ELSE IF rec.email = None THEN Some(MsgNullEmail)
    ELSE IF rec.password = None THEN Some(MsgNullPassword)
    ELSE IF \E u \in rows : u.username = rec.username[1] THEN Some(MsgDupUsername)
    ELSE None

\* The table without the UNIQUE constraint on username.
ConstraintErrorNoUsername(rows, rec) ==
    IF rec.username = None THEN Some(MsgNullUsername)
    ELSE IF rec.email = None THEN Some(MsgNullEmail)
    ELSE IF rec.password = None THEN Some(MsgNullPassword)
    ELSE IF \E u \in rows : u.email = rec.email[1] THEN Some(MsgDupEmail)
    ELSE None

\* The constraint the insert of rec violates, if any: the three NOT NULL columns,
\* then UNIQUE (username), then UNIQUE (email).
ConstraintError(rows, rec) ==
    IF rec.username = None THEN Some(MsgNullUsername)
    ELSE IF rec.email = None THEN Some(MsgNullEmail)
    ELSE IF rec.password = None THEN Some(MsgNullPassword)
    ELSE IF \E u \in rows : u.username = rec.username[1] THEN Some(MsgDupUsername)
    ELSE IF \E u \in rows : u.email = rec.email[1] THEN Some(MsgDupEmail)
    ELSE None

\* The row the table stores for rec under a fresh id.
NewRow(rec, id) ==
    [id |-> id, username |-> rec.username[1], email |-> rec.email[1],
     password |-> rec.password[1]]

\* An upsert: a row with the same username or email is replaced.
InsertOutcomeUpsert(rows, rec, id) ==
    IF rec.username = None \/ rec.email = None \/ rec.password = None
        THEN [rows |-> rows, data |-> None, error |-> ConstraintError(rows, rec)]
        ELSE [rows |-> {u \in rows : u.username # rec.username[1]
                                     /\ u.email # rec.email[1]}
                         \cup {NewRow(rec, id)},
              data |-> <<NewRow(rec, id)>>, error |-> None]

\* supabase.from('users').insert([rec]) as the database runs it: one statement,
\* the constraint checks and the write together. The table afterwards and the
\* {data, error} returned.
InsertOutcome(rows, rec, id) ==
    IF ConstraintError(rows, rec) # None
        THEN [rows |-> rows, data |-> None, error |-> ConstraintError(rows, rec)]
        ELSE [rows |-> rows \cup {NewRow(rec, id)},
              data |-> <<NewRow(rec, id)>>, error |-> None]

\* gen_random_uuid(): an id no row has. Ids are opaque and never compared by the
\* handler, so the model takes the least unused one.
FreshId(rows) == CHOOSE i \in Ids \ {u.id : u \in rows} :
                    \A j \in Ids \ {u.id : u \in rows} : i <= j

----------------------------------------------------------------------------
(* The state machine *)

Init ==
    /\ users = {}
    /\ pc = [r \in Reqs |-> "Idle"]
    /\ body = [r \in Reqs |-> NoBody]
    /\ hashedPassword = [r \in Reqs |-> None]
    /\ result = [r \in Reqs |-> None]
    /\ response = [r \in Reqs |-> None]
    /\ usedSalts = {}
    /\ insertCalls = [r \in Reqs |-> 0]

\* A handler that validates presence and answers 400 before hashing.
ReceiveValidating(r) ==
    /\ pc[r] = "Idle"
    /\ \A q \in Reqs : q < r => pc[q] # "Idle"
    /\ \E b \in Bodies :
        /\ body' = [body EXCEPT ![r] = b]
        /\ IF b.password \in {None, Some("")}
            THEN /\ pc' = [pc EXCEPT ![r] = "Failed"]
                 /\ response' = [response EXCEPT ![r] =
                        Some([status |-> 400, body |-> [error |-> "password required"]])]
            ELSE /\ pc' = [pc EXCEPT ![r] = "Hashing"]
                 /\ UNCHANGED response
    /\ UNCHANGED <<users, hashedPassword, result, usedSalts, insertCalls>>

\* Request r arrives (requests are numbered in arrival order): the handler
\* destructures req.body and calls bcrypt.hash, then suspends on it.
Receive(r) ==
    /\ pc[r] = "Idle"
    /\ \A q \in Reqs : q < r => pc[q] # "Idle"
    /\ \E b \in Bodies : body' = [body EXCEPT ![r] = b]
    /\ pc' = [pc EXCEPT ![r] = "Hashing"]
    /\ UNCHANGED <<users, hashedPassword, result, response, usedSalts, insertCalls>>

\* bcrypt.hash resolves with a freshly salted hash; the handler resumes and
\* invokes the insert, then suspends on it.
HashResolve(r) ==
    /\ pc[r] = "Hashing"
    /\ ~HashRejects(HashArg(body[r]))
    /\ hashedPassword' = [hashedPassword EXCEPT ![r] =
                            Some(Hash(HashArg(body[r])[1], GenSalt(usedSalts)))]
    /\ usedSalts' = usedSalts \cup {GenSalt(usedSalts)}
    /\ insertCalls' = [insertCalls EXCEPT ![r] = @ + 1]
    /\ pc' = [pc EXCEPT ![r] = "Persisting"]
    /\ UNCHANGED <<users, body, result, response>>

\* bcrypt.hash rejects; the await throws inside the async handler, which has no
\* try/catch: its promise rejects, Express 4 does not look at it, no response is
\* sent.
HashReject(r) ==
    /\ pc[r] = "Hashing"
    /\ HashRejects(HashArg(body[r]))
    /\ pc' = [pc EXCEPT ![r] = "Unhandled"]
    /\ UNCHANGED <<users, body, hashedPassword, result, response, usedSalts, insertCalls>>

\* The store runs r's insert, or the call fails before reaching the table.
StoreInsert(r) ==
    /\ pc[r] = "Persisting"
    /\ result[r] = None
    /\ \/ /\ result' = [result EXCEPT ![r] =
                            Some([data |-> None, error |-> Some(MsgUnavailable)])]
          /\ UNCHANGED users
       \/ LET out == InsertOutcome(users,
                          InsertPayload(body[r], hashedPassword[r][1]),
                          FreshId(users))
            IN  /\ users' = out.rows
                /\ result' = [result EXCEPT ![r] =
                                  Some([data |-> out.data, error |-> out.error])]
    /\ UNCHANGED <<pc, body, hashedPassword, response, usedSalts, insertCalls>>

\* A handler that calls the insert again when it reported an error.
RespondRetry(r) ==
    /\ pc[r] = "Persisting"
    /\ result[r] # None
    /\ IF result[r][1].error # None /\ insertCalls[r] < 2
        THEN /\ result' = [result EXCEPT ![r] = None]
             /\ insertCalls' = [insertCalls EXCEPT ![r] = @ + 1]
             /\ UNCHANGED <<pc, response>>
        ELSE /\ response' = [response EXCEPT ![r] = Some(ResponseFor(result[r][1]))]
             /\ pc' = [pc EXCEPT ![r] =
                          IF result[r][1].error # None THEN "Failed" ELSE "Succeeded"]
             /\ UNCHANGED <<result, insertCalls>>
    /\ UNCHANGED <<users, body, hashedPassword, usedSalts>>

\* The insert's promise resolves; the handler resumes and sends the response.
Respond(r) ==
    /\ pc[r] = "Persisting"
    /\ result[r] # None
    /\ response' = [response EXCEPT ![r] = Some(ResponseFor(result[r][1]))]
    /\ pc' = [pc EXCEPT ![r] =
                 IF result[r][1].error # None THEN "Failed" ELSE "Succeeded"]
    /\ UNCHANGED <<users, body, hashedPassword, result, usedSalts, insertCalls>>

Next ==
    \E r \in Reqs :
        \/ Receive(r)
        \/ HashResolve(r)
        \/ HashReject(r)
        \/ StoreInsert(r)
        \/ Respond(r)

Spec == Init /\ [][Next]_vars

TypeOK ==
    /\ pc \in [Reqs -> {"Idle", "Hashing", "Persisting", "Succeeded", "Failed", "Unhandled"}]
    /\ \A r \in Reqs : body[r] \in Bodies \cup {NoBody}
    /\ usedSalts \subseteq Salts
    /\ insertCalls \in [Reqs -> 0..1]

----------------------------------------------------------------------------
(* Vocabulary of the properties *)

\* The request got an HTTP response.
Ended(r) == pc[r] \in {"Succeeded", "Failed"}

\* The rows r's insert wrote (none or one).
CreatedRows(r) ==
    IF result[r] # None /\ result[r][1].error = None
        THEN {result[r][1].data[1]}
        ELSE {}

\* In this step the store runs r's insert.
InsertRuns(r) == pc[r] = "Persisting" /\ result[r] = None /\ result'[r] # None

\* In this step r's response is sent.
Sends(r) == response[r] = None /\ response'[r] # None

\* No row holds the username or the email of r's body.
Unused(r) ==
    \A u \in users : Some(u.username) # body[r].username
                     /\ Some(u.email) # body[r].email

\* No row but r's own holds the username or the email of r's body.
UnusedByOthers(r) ==
    \A u \in users \ CreatedRows(r) : Some(u.username) # body[r].username
                                      /\ Some(u.email) # body[r].email

\* r1 and r2 are two requests with the same username and different emails, and
\* the table held that username before neither of them.
SameUsernamePair(r1, r2) ==
    /\ r1 # r2
    /\ pc[r1] # "Idle" /\ pc[r2] # "Idle"
    /\ body[r1].username # None
    /\ body[r1].username = body[r2].username
    /\ body[r1].email # body[r2].email
    /\ \A u \in users : Some(u.username) = body[r1].username
                        => u \in CreatedRows(r1) \cup CreatedRows(r2)

RowsNamed(name) == {u \in users : Some(u.username) = name}

Answered(r, status) == response[r] # None /\ response[r][1].status = status

AnsweredError(r, msg) ==
    Answered(r, 400) /\ response[r][1].body = [error |-> msg]

----------------------------------------------------------------------------
(* C1 *)

\* C1: in every reachable state no two distinct rows of users have the same
\* username and no two have the same email.
C1_UniqueUsernameAndEmail ==
    \A a, b \in users : a # b => a.username # b.username /\ a.email # b.email

\* Two rows are stored.
C1_Witness == Cardinality(users) = 2

----------------------------------------------------------------------------
(* C2 *)

\* C2 as stated: of two requests with the same username and different emails
\* against a table not holding the username, once both are answered exactly one
\* got 201, the other 400 with a uniqueness violation, and one row has the name.
C2_Original ==
    \A r1, r2 \in Reqs :
        SameUsernamePair(r1, r2) /\ Ended(r1) /\ Ended(r2) =>
            /\ Cardinality(RowsNamed(body[r1].username)) = 1
            /\ \/ Answered(r1, 201)
                  /\ (AnsweredError(r2, MsgDupUsername) \/ AnsweredError(r2, MsgDupEmail))
               \/ Answered(r2, 201)
                  /\ (AnsweredError(r1, MsgDupUsername) \/ AnsweredError(r1, MsgDupEmail))

\* C2 amended: of two such requests at most one gets 201 and at most one row
\* ever has the username; when both are answered and neither insert failed for a
\* reason other than the duplicate username, exactly one got 201, the other 400
\* with the duplicate-username message, and exactly one row has the username.
C2_OneWinner ==
    \A r1, r2 \in Reqs :
        SameUsernamePair(r1, r2) =>
            /\ ~(Answered(r1, 201) /\ Answered(r2, 201))
            /\ Cardinality(RowsNamed(body[r1].username)) <= 1
            /\ ( /\ Ended(r1) /\ Ended(r2)
                 /\ \A r \in {r1, r2} : result[r][1].error \in {None, Some(MsgDupUsername)}
                 => /\ Cardinality(RowsNamed(body[r1].username)) = 1
                    /\ \/ Answered(r1, 201) /\ AnsweredError(r2, MsgDupUsername)
                       \/ Answered(r2, 201) /\ AnsweredError(r1, MsgDupUsername) )

\* Request 1 arrived first, request 2 overtook it at the store: 2 got 201 and 1
\* the duplicate-username error.
C2_Witness ==
    /\ SameUsernamePair(1, 2)
    /\ body[1].email # None /\ body[2].email # None
    /\ Answered(2, 201)
    /\ AnsweredError(1, MsgDupUsername)
    /\ Cardinality(RowsNamed(body[1].username)) = 1

----------------------------------------------------------------------------
(* C3 *)

\* C3 as stated: an insert whose username and email are in no row adds exactly
\* one row with the submitted username and email.
C3_Original ==
    [][\A r \in Reqs :
        InsertRuns(r) /\ Unused(r) =>
            \E row \in users' :
                /\ row \notin users
                /\ users' = users \cup {row}
                /\ Some(row.username) = body[r].username
                /\ Some(row.email) = body[r].email]_vars

\* C3 amended: an insert whose username and email are present, are in no row
\* when the store runs it, and that the store does not fail for a reason of its
\* own, adds exactly one row, with the submitted username and email, and changes
\* no other; the handler then answers 201 with the inserted record.
C3_SuccessWritesOneRow ==
    [][\A r \in Reqs :
        /\ ( /\ InsertRuns(r)
             /\ body[r].username # None /\ body[r].email # None
             /\ Unused(r)
             /\ result'[r][1].error # Some(MsgUnavailable)
             => \E row \in users' :
                    /\ row \notin users
                    /\ users' = users \cup {row}
                    /\ Some(row.username) = body[r].username
                    /\ Some(row.email) = body[r].email
                    /\ result'[r][1] = [data |-> <<row>>, error |-> None] )
        /\ ( Sends(r) /\ result[r] # None /\ result[r][1].error = None
             => /\ response'[r] = Some([status |-> 201, body |-> result[r][1].data])
                /\ pc'[r] = "Succeeded"
                /\ users' = users )]_vars

\* A request was answered 201 with the row it added.
C3_Witness ==
    \E r \in Reqs :
        /\ pc[r] = "Succeeded"
        /\ Answered(r, 201)
        /\ response[r][1].body[1] \in users
        /\ Some(response[r][1].body[1].username) = body[r].username

----------------------------------------------------------------------------
(* C4 *)

\* C4: an insert that reports an error writes no row, and the handler answers it
\* with 400 and {error: the store's message}, not 201, writing no row either.
C4_ErrorIs400AndWritesNothing ==
    [][\A r \in Reqs :
        /\ (InsertRuns(r) /\ result'[r][1].error # None => users' = users)
        /\ ( Sends(r) /\ result[r] # None /\ result[r][1].error # None
             => /\ response'[r] =
                       Some([status |-> 400, body |-> [error |-> result[r][1].error[1]]])
                /\ pc'[r] = "Failed"
                /\ users' = users )]_vars

\* One request was refused for a constraint and another for an unreachable store.
C4_Witness ==
    \E r1, r2 \in Reqs :
        /\ AnsweredError(r1, MsgUnavailable)
        /\ AnsweredError(r2, MsgNullUsername)
        /\ CreatedRows(r1) = {} /\ CreatedRows(r2) = {}

----------------------------------------------------------------------------
(* C5 *)

\* C5 as stated: no failure escapes the handler unanswered, so no request's
\* handler ever ends in a rejection nobody handles.
C5_NoUnhandledRejection == \A r \in Reqs : pc[r] # "Unhandled"

----------------------------------------------------------------------------
(* C6 *)

\* C6: every stored row was written by a request whose raw password differs from
\* the row's password and verifies against it.
C6_StoredPasswordIsHash ==
    \A u \in users :
        \E r \in Reqs :
            /\ u \in CreatedRows(r)
            /\ body[r].password # None
            /\ u.password # body[r].password[1]
            /\ Verify(body[r].password[1], u.password)

\* A row holds the salted hash of "s3cret".
C6_Witness ==
    \E u \in users : \E r \in Reqs :
        /\ u \in CreatedRows(r)
        /\ body[r].password = Some("s3cret")
        /\ Verify("s3cret", u.password)

----------------------------------------------------------------------------
(* C7 *)

\* C7: two requests hashing the same password get different hashes, each of
\* which verifies against the password; rows they store differ in password.
C7_SamePasswordDifferentHashes ==
    \A r1, r2 \in Reqs :
        /\ r1 # r2
        /\ hashedPassword[r1] # None /\ hashedPassword[r2] # None
        /\ body[r1].password = body[r2].password
        => /\ hashedPassword[r1] # hashedPassword[r2]
           /\ Verify(body[r1].password[1], hashedPassword[r1][1])
           /\ Verify(body[r2].password[1], hashedPassword[r2][1])
           /\ \A u1 \in CreatedRows(r1), u2 \in CreatedRows(r2) :
                  u1.password # u2.password

\* Two users registered with the same password are both stored.
C7_Witness ==
    \E r1, r2 \in Reqs :
        /\ r1 # r2
        /\ body[r1].password = body[r2].password
        /\ CreatedRows(r1) # {} /\ CreatedRows(r2) # {}
        /\ CreatedRows(r1) \cup CreatedRows(r2) \subseteq users

----------------------------------------------------------------------------
(* C8 *)

\* The moves of a request's handler: it starts hashing on arrival, goes on to
\* the insert when the hash resolves (or ends there when the hash rejects), and
\* ends answered when the insert returned.
PhaseMoves ==
    { <<"Idle", "Hashing">>, <<"Hashing", "Persisting">>, <<"Hashing", "Unhandled">>,
      <<"Persisting", "Succeeded">>, <<"Persisting", "Failed">> }

\* C8: a request's phase only moves forward along Received/Hashing, Persisting,
\* Succeeded or Failed; the insert is invoked only as the hash completes, once;
\* the store runs it once; the one response is sent only after it returned.
C8_PhasesInOrder ==
    [][\A r \in Reqs :
        /\ (pc'[r] # pc[r] => <<pc[r], pc'[r]>> \in PhaseMoves)
        /\ ( insertCalls'[r] # insertCalls[r]
             => /\ insertCalls[r] = 0 /\ insertCalls'[r] = 1
                /\ pc[r] = "Hashing" /\ pc'[r] = "Persisting"
                /\ hashedPassword'[r] # None )
        /\ (result'[r] # result[r] => result[r] = None /\ insertCalls[r] = 1)
        /\ ( response'[r] # response[r]
             => /\ response[r] = None
                /\ result[r] # None
                /\ pc[r] = "Persisting" /\ Ended(r)' )]_vars

\* One request went through to Succeeded and one to Failed, each after one insert.
C8_Witness ==
    \E r1, r2 \in Reqs :
        /\ pc[r1] = "Succeeded" /\ pc[r2] = "Failed"
        /\ insertCalls[r1] = 1 /\ insertCalls[r2] = 1
        /\ hashedPassword[r1] # None /\ hashedPassword[r2] # None

----------------------------------------------------------------------------
(* C9 *)

\* C9 as stated, its last part: an answered request with an empty password whose
\* username and email no other row holds has stored a row with the hash of "".
C9_Original ==
    \A r \in Reqs :
        Ended(r) /\ body[r].password = Some("") /\ UnusedByOthers(r) =>
            \E u \in users \cap CreatedRows(r) : Verify("", u.password)

\* C9 amended: no request is answered before its password, absent or empty or
\* not, went to the hash call; the hash is of the submitted password unchanged;
\* a row written has the submitted username and email and that hash; and an
\* answered request with an empty password, a present username and email no
\* other row holds, and a store that did not fail, stored the hash of "".
C9_NoPresenceValidation ==
    \A r \in Reqs :
        /\ (response[r] # None => hashedPassword[r] # None)
        /\ (pc[r] \notin {"Idle", "Hashing"} /\ hashedPassword[r] = None
            => body[r].password = None /\ response[r] = None)
        /\ ( hashedPassword[r] # None
             => /\ body[r].password # None
                /\ Verify(body[r].password[1], hashedPassword[r][1]) )
        /\ \A u \in CreatedRows(r) :
               /\ Some(u.username) = body[r].username
               /\ Some(u.email) = body[r].email
               /\ Some(u.password) = hashedPassword[r]
        /\ ( /\ Ended(r)
             /\ body[r].password = Some("")
             /\ body[r].username # None /\ body[r].email # None
             /\ UnusedByOthers(r)
             /\ result[r][1].error # Some(MsgUnavailable)
             => /\ pc[r] = "Succeeded"
                /\ \E u \in users \cap CreatedRows(r) : Verify("", u.password) )

\* A request with empty username, email and password was answered 201 and its
\* row holds the hash of "".
C9_Witness ==
    \E r \in Reqs :
        /\ body[r] = [username |-> Some(""), email |-> Some(""), password |-> Some("")]
        /\ Answered(r, 201)
        /\ \E u \in users \cap CreatedRows(r) : Verify("", u.password)

----------------------------------------------------------------------------
(* C10 *)

\* C10: no step removes or changes a stored row; the table only grows.
C10_RowsOnlyGrow == [][users \subseteq users']_vars

\* Request 1's row is still stored after request 2 was refused as a duplicate.
C10_Witness ==
    /\ pc[1] = "Succeeded"
    /\ CreatedRows(1) \subseteq users
    /\ pc[2] = "Failed"
    /\ AnsweredError(2, MsgDupEmail)

====
